---- MODULE Spec2Model ----
(***************************************************************************)
(* Fisher Linear Discriminant Analysis, src/lda/src/subspace.cpp.          *)
(*                                                                         *)
(* The module models                                                       *)
(*   - subspace::LinearDiscriminantAnalysis::compute (lines 74-170) as one *)
(*     atomic action on the object's fields _dataAsRow, _num_components,   *)
(*     _eigenvalues and _eigenvectors, and                                 *)
(*   - the free functions subspace::project and subspace::reconstruct      *)
(*     (lines 30-72) as operators over integer matrices.                   *)
(*                                                                         *)
(* A matrix is a sequence of rows, a row a sequence of integers.  The      *)
(* means and scatter matrices of compute are rationals; they are carried   *)
(* exactly, as integers over a common positive denominator.                *)
(***************************************************************************)
EXTENDS Integers, Sequences, FiniteSets, TLC

\* Largest number of observations N of a training set.
MaxN == 4
\* Largest feature dimension D of a training set.
MaxD == 3
\* Largest number N * D of entries of a training set.
MaxCells == 6
\* Eigenvalues returned by the eigen-solver range over 0..MaxEig.
MaxEig == 1
\* Largest feature dimension D of a project/reconstruct round trip.
MaxDim == 2
\* Largest number of observations of a round trip.
MaxObs == 2
\* Largest number of entries of the sample matrix of a round trip.
MaxEntries == 4
\* Entries of the sample matrices, the means and the bases.
DataVals == {0, 1}
\* Class identifiers: arbitrary integers, neither contiguous nor from 0.
LabelVals == {2, 5, 9}
\* src.channels() of the matrix handed to compute.
Channels == {1, 3}
\* Values the constructor may store in _num_components: non-positive, within
\* 1 .. C - 1 for some labels, and above every C - 1.
ConfigVals == -1 .. Cardinality(LabelVals)

VARIABLES
    dataAsRow,       \* _dataAsRow
    num_components,  \* _num_components
    eigenvalues,     \* _eigenvalues: one row, a sequence of eigenvalues
    eigenvectors,    \* _eigenvectors: its columns, each named by the index
                     \* the eigen-solver returned it at
    last,            \* history: what the last call of compute did
    rt               \* the last project/reconstruct round trip

vars == <<dataAsRow, num_components, eigenvalues, eigenvectors, last, rt>>

----------------------------------------------------------------------------
(* Matrices *)

Rows(m) == Len(m)

Cols(m) == IF Len(m) = 0 THEN 0 ELSE Len(m[1])

Mats(n, d, V) == [1 .. n -> [1 .. d -> V]]

\* The sequence f and the matrix m, evaluated once and held as tuples.
AsSeq(f) == f \o <<>>

AsMat(m) == AsSeq([i \in 1 .. Len(m) |-> AsSeq(m[i])])

Transpose(m) == AsMat([j \in 1 .. Cols(m) |-> [i \in 1 .. Rows(m) |-> m[i][j]]])

Zeros(n, d) == [i \in 1 .. n |-> [j \in 1 .. d |-> 0]]

RECURSIVE SumSeq(_)
SumSeq(s) == IF s = <<>> THEN 0 ELSE Head(s) + SumSeq(Tail(s))

\* a * b
MatMul(a, b) ==
    AsMat([i \in 1 .. Rows(a) |->
        [j \in 1 .. Cols(b) |-> SumSeq([k \in 1 .. Cols(a) |-> a[i][k] * b[k][j]])]])

\* mulTransposed(m, dst, true): dst = m' * m
MulTransposed(m) == MatMul(Transpose(m), m)

\* m without row i and column j
Minor(m, i, j) ==
    AsMat([a \in 1 .. Rows(m) - 1 |->
        [b \in 1 .. Cols(m) - 1 |->
            m[IF a < i THEN a ELSE a + 1][IF b < j THEN b ELSE b + 1]]])

RECURSIVE Det(_)
Det(m) ==
    IF Rows(m) = 1 THEN m[1][1]
    ELSE SumSeq([j \in 1 .. Cols(m) |->
            (IF j % 2 = 1 THEN 1 ELSE -1) * m[1][j] * Det(Minor(m, 1, j))])

----------------------------------------------------------------------------
(* compute, lines 80-92: the labels *)

\* cv::remove_dups on the first n labels: the distinct labels, in order of
\* first occurrence.
RECURSIVE RemoveDupsUpTo(_, _)
RemoveDupsUpTo(labels, n) ==
    IF n = 0 THEN <<>>
    ELSE LET seen == RemoveDupsUpTo(labels, n - 1)
         IN IF \E j \in 1 .. Len(seen) : seen[j] = labels[n]
            THEN seen
            ELSE Append(seen, labels[n])

RemoveDups(labels) == RemoveDupsUpTo(labels, Len(labels))

\* mapped_labels: each label's index in num2label (1-based here).
MappedLabels(labels) ==
    LET num2label == RemoveDups(labels)
    IN AsSeq([i \in 1 .. Len(labels) |->
            CHOOSE c \in 1 .. Len(num2label) : num2label[c] = labels[i]])

----------------------------------------------------------------------------
(* compute, lines 102-145: means, scatter matrices, inversion *)

RECURSIVE Product(_)
Product(s) == IF s = <<>> THEN 1 ELSE Head(s) * Product(Tail(s))

\* numClass, lines 106-119.
NumClass(mapped, C) ==
    AsSeq([c \in 1 .. C |-> Cardinality({i \in 1 .. Len(mapped) : mapped[i] = c})])

\* The sum of the rows of data that rowsel selects.
RowSum(data, rowsel) ==
    AsSeq([j \in 1 .. Cols(data) |->
        SumSeq([i \in 1 .. Rows(data) |-> IF rowsel[i] THEN data[i][j] ELSE 0])])

\* Q * meanClass[c], lines 108-123; numClass the class sizes and Q their
\* product.
MeanClassQ(data, mapped, numClass, Q) ==
    AsMat([c \in 1 .. Len(numClass) |->
            LET s == RowSum(data, [i \in 1 .. Rows(data) |-> mapped[i] = c])
            IN [j \in 1 .. Cols(data) |-> (Q \div numClass[c]) * s[j]]])

\* Q * (data with each row's class mean subtracted), lines 125-129.
CenteredQ(data, mapped, meanClassQ, Q) ==
    AsMat([i \in 1 .. Rows(data) |->
            [j \in 1 .. Cols(data) |-> Q * data[i][j] - meanClassQ[mapped[i]][j]]])

\* Q^2 * Sw, lines 131-132.
WithinScatterQ(centeredQ) == MulTransposed(centeredQ)

\* Sw.inv(), line 142: cv::invert with DECOMP_LU.  A singular matrix yields
\* the zero matrix; no exception is raised and line 142 tests nothing.
Invert(m) ==
    IF Det(m) = 0
    THEN [singular |-> TRUE, raised |-> FALSE]
    ELSE [singular |-> FALSE, raised |-> FALSE]

\* Lines 77-145 of compute on data (observations as rows) and labels: what
\* the rest of the call depends on.  Sb and M = inv(Sw) * Sb feed only the
\* eigen-solver, whose result is not constrained here.
ScatterStage(data, labels) ==
    LET N == Rows(data)
        D == Cols(data)
        mapped == MappedLabels(labels)
        C == Len(RemoveDups(labels))
    IN IF Len(labels) # N
       THEN [N |-> N, D |-> D, L |-> Len(labels), C |-> C,
             singular |-> FALSE, raised |-> FALSE]
       ELSE LET numClass == NumClass(mapped, C)
                Q == Product(numClass)
                meanClassQ == MeanClassQ(data, mapped, numClass, Q)
                Sw == WithinScatterQ(CenteredQ(data, mapped, meanClassQ, Q))
                Swi == Invert(Sw)
            IN [N |-> N, D |-> D, L |-> N, C |-> C,
                singular |-> Swi.singular, raised |-> Swi.raised]

LabelSeqs(n) == [1 .. n -> LabelVals]

\* The shapes (N, D) of data.
Shapes == {sh \in (1 .. MaxN) \X (1 .. MaxD) : sh[1] * sh[2] <= MaxCells}

\* Line 77: data = _dataAsRow ? src.clone() : transpose(src); src is N x D
\* when _dataAsRow and D x N otherwise.
StagesAsRow ==
    UNION {{ScatterStage(src, labels) :
                src \in Mats(sh[1], sh[2], DataVals), labels \in LabelSeqs(L)} :
           sh \in Shapes, L \in 0 .. MaxN}

StagesAsCol ==
    UNION {{ScatterStage(Transpose(src), labels) :
                src \in Mats(sh[2], sh[1], DataVals), labels \in LabelSeqs(L)} :
           sh \in Shapes, L \in 0 .. MaxN}

Stages(asRow) == IF asRow THEN StagesAsRow ELSE StagesAsCol

----------------------------------------------------------------------------
(* compute, lines 146-169: eigen-solver, ordering, truncation *)

EigVals == 0 .. MaxEig

\* EigenvalueDecomposition / Eigen::EigenSolver on the D x D matrix M: the
\* real parts of its D eigenvalues, in no guaranteed order.
SolverOutputs(D) == [1 .. D -> EigVals]

\* Column i of the solver's eigenvector matrix is the eigenvector of its
\* i-th eigenvalue.
SolverVectors(D) == [i \in 1 .. D |-> i]

\* cv::argsort(src, ascending): the indices of src in sorted order, equal
\* values in their original order.
Argsort(vals, ascending) ==
    LET Before(i, j) ==
            \/ (IF ascending THEN vals[i] < vals[j] ELSE vals[i] > vals[j])
            \/ vals[i] = vals[j] /\ i < j
        Rank(i) == 1 + Cardinality({j \in 1 .. Len(vals) : Before(j, i)})
    IN [k \in 1 .. Len(vals) |-> CHOOSE i \in 1 .. Len(vals) : Rank(i) = k]

\* cv::sortMatrixByColumn(src, indices): column k of the result is column
\* indices[k] of src.
SortMatrixByColumn(columns, indices) ==
    [k \in 1 .. Len(indices) |-> columns[indices[k]]]

\* cv::Mat(m, Range::all(), Range(start, end)) asserts
\* 0 <= start <= end <= m.cols.
ColRangeOK(columns, start, end) ==
    0 <= start /\ start <= end /\ end <= Len(columns)

ColRange(columns, start, end) == SubSeq(columns, start + 1, end)

\* Lines 99-101 recomputing the count from the classes alone.
ClipIgnoringStored(r, C) == C - 1

\* Lines 99-101.
ClipNumComponents(r, C) == IF r <= 0 \/ r > C - 1 THEN C - 1 ELSE r

\* Lines 96-98 with the comparison turned around.
WarnsWhenMoreObservations(N, D) == D < N

\* Lines 96-98: the condition of the warning on cout.
Warns(N, D) == N < D

\* Lines 94-95 rejecting only too many labels.
LabelCountExceeds(L, N) == L > N

\* Lines 94-95.
LabelCountMismatch(L, N) == L # N

\* Lines 160-166 without the reordering.
SortStageSkipped(vals, vecs) == [eigenvalues |-> vals, eigenvectors |-> vecs]

\* Lines 160-166 reordering the eigenvalues alone.
SortStageValuesOnly(vals, vecs) ==
    [eigenvalues |-> SortMatrixByColumn(vals, Argsort(vals, FALSE)),
     eigenvectors |-> vecs]

\* Lines 160-166: both matrices reordered by the same sorted_indices.
SortStage(vals, vecs) ==
    LET sorted_indices == Argsort(vals, FALSE)
    IN [eigenvalues |-> SortMatrixByColumn(vals, sorted_indices),
        eigenvectors |-> SortMatrixByColumn(vecs, sorted_indices)]

\* Lines 167-169: each assignment happens only if its Mat constructor
\* does not fail.
TruncateStage(sorted, k) ==
    IF ~ColRangeOK(sorted.eigenvalues, 0, k)
    THEN [outcome |-> "StsAssert",
          eigenvalues |-> sorted.eigenvalues,
          eigenvectors |-> sorted.eigenvectors]
    ELSE IF ~ColRangeOK(sorted.eigenvectors, 0, k)
    THEN [outcome |-> "StsAssert",
          eigenvalues |-> ColRange(sorted.eigenvalues, 0, k),
          eigenvectors |-> sorted.eigenvectors]
    ELSE [outcome |-> "ok",
          eigenvalues |-> ColRange(sorted.eigenvalues, 0, k),
          eigenvectors |-> ColRange(sorted.eigenvectors, 0, k)]

\* The record of a call of compute: its arguments (channels of src, N
\* observations, L labels), r = _num_components when it started, whether an
\* earlier call had overwritten _num_components (rClipped), and how far it
\* got: D and C once lines 90-92 have set them and line 95 has not thrown.
NoCall ==
    [outcome |-> "none", channels |-> 0, N |-> 0, D |-> 0, L |-> 0, C |-> 0,
     r |-> 0, rClipped |-> FALSE, warned |-> FALSE, singular |-> FALSE,
     formedM |-> FALSE, esvals |-> <<>>]

Rejected(r, rc, ch, st) ==
    [NoCall EXCEPT !.outcome = "StsBadArg", !.channels = ch, !.r = r,
                   !.rClipped = rc, !.N = st.N, !.L = st.L]

\* compute(src, labels) as a whole, lines 74-170: the fields it leaves and
\* the record of the call.  r, ev, evec are the fields when the call starts,
\* rc whether an earlier call overwrote r, st the ScatterStage of the
\* arguments, es the solver's eigenvalues.
ComputeResult(r, rc, ev, evec, ch, st, es) ==
    IF ch # 1
    THEN [num_components |-> r, eigenvalues |-> ev, eigenvectors |-> evec,
          last |-> Rejected(r, rc, ch, st)]
    ELSE IF LabelCountMismatch(st.L, st.N)
    THEN [num_components |-> r, eigenvalues |-> ev, eigenvectors |-> evec,
          last |-> Rejected(r, rc, ch, st)]
    ELSE LET k == ClipNumComponents(r, st.C)
             call == [outcome |-> "ok", channels |-> ch,
                      N |-> st.N, D |-> st.D, L |-> st.L, C |-> st.C, r |-> r,
                      rClipped |-> rc,
                      warned |-> Warns(st.N, st.D),
                      singular |-> st.singular, formedM |-> FALSE,
                      esvals |-> <<>>]
         IN IF st.raised
            THEN [num_components |-> k, eigenvalues |-> ev, eigenvectors |-> evec,
                  last |-> [call EXCEPT !.outcome = "SingularMatrix"]]
            ELSE LET res == TruncateStage(SortStage(es, SolverVectors(st.D)), k)
                 IN [num_components |-> k,
                     eigenvalues |-> res.eigenvalues,
                     eigenvectors |-> res.eigenvectors,
                     last |-> [call EXCEPT !.outcome = res.outcome,
                                           !.formedM = TRUE, !.esvals = es]]

----------------------------------------------------------------------------
(* subspace::project and subspace::reconstruct, lines 30-72 *)

\* src.convertTo(data, mean.type()): mean is of a floating-point type, which
\* holds every integer of the magnitudes met here exactly.
ConvertTo(m) == m

\* repeat(mean.reshape(1,1), n, 1)
Repeat(mean, n) == [i \in 1 .. n |-> mean]

Subtract(a, b) ==
    AsMat([i \in 1 .. Rows(a) |-> [j \in 1 .. Cols(a) |-> a[i][j] - b[i][j]]])

Failure(code) == [err |-> code, val |-> <<>>]

Success(m) == [err |-> "", val |-> m]

\* gemm(a, b, alpha, c, beta, dst, flags): dst = alpha a op(b) + beta c, op
\* the transposition when flags is GEMM_2_T; c = <<>> is Mat().  The shapes
\* are asserted.
Gemm(a, b, alpha, c, beta, transposeB) ==
    LET opb == IF transposeB THEN Transpose(b) ELSE b
    IN IF \/ Cols(a) # Rows(opb)
          \/ c # <<>> /\ (Rows(c) # Rows(a) \/ Cols(c) # Cols(opb))
       THEN Failure("StsAssert")
       ELSE LET ab == MatMul(a, opb)
            IN Success(AsMat([i \in 1 .. Rows(ab) |->
                    [j \in 1 .. Cols(ab) |->
                        alpha * ab[i][j] + (IF c = <<>> THEN 0 ELSE beta * c[i][j])]]))

\* Lines 31-49: Y = (X - mean) * W.
Project(W, mean, src, asRow) ==
    LET n == IF asRow THEN Rows(src) ELSE Cols(src)
        d == IF asRow THEN Cols(src) ELSE Rows(src)
    IN IF d # Len(mean)
       THEN Failure("StsUnmatchedSizes")
       ELSE LET data == ConvertTo(src)
                X == Subtract(IF asRow THEN data ELSE Transpose(data),
                              Repeat(mean, n))
                Y == Gemm(X, W, 1, <<>>, 0, FALSE)
            IN IF Y.err # "" THEN Y
               ELSE Success(IF asRow THEN Y.val ELSE Transpose(Y.val))

\* Lines 52-72 adding no mean.
ReconstructWithoutMean(W, mean, src, asRow) ==
    LET d == IF asRow THEN Cols(src) ELSE Rows(src)
    IN IF d # Len(mean)
       THEN Failure("StsUnmatchedSizes")
       ELSE LET data == ConvertTo(src)
                X == Gemm(IF asRow THEN data ELSE Transpose(data), W, 1,
                          <<>>, 0, TRUE)
            IN IF X.err # "" THEN X
               ELSE Success(IF asRow THEN X.val ELSE Transpose(X.val))

\* Lines 52-72: X = Y * W' + mean.
Reconstruct(W, mean, src, asRow) ==
    LET n == IF asRow THEN Rows(src) ELSE Cols(src)
        d == IF asRow THEN Cols(src) ELSE Rows(src)
    IN IF d # Len(mean)
       THEN Failure("StsUnmatchedSizes")
       ELSE LET data == ConvertTo(src)
                X == Gemm(IF asRow THEN data ELSE Transpose(data), W, 1,
                          Repeat(mean, n), 1, TRUE)
            IN IF X.err # "" THEN X
               ELSE Success(IF asRow THEN X.val ELSE Transpose(X.val))

\* The shapes (n, d) of the sample matrix of a round trip.
RoundTripShapes ==
    {sh \in (1 .. MaxObs) \X (1 .. MaxDim) : sh[1] * sh[2] <= MaxEntries}

Means == UNION {[1 .. len -> DataVals] : len \in 1 .. MaxDim}

----------------------------------------------------------------------------
(* The object *)

NoRoundTrip == [status |-> "none"]

Init ==
    /\ dataAsRow \in BOOLEAN
    /\ num_components \in ConfigVals
    /\ eigenvalues = <<>>
    /\ eigenvectors = <<>>
    /\ last = NoCall
    /\ rt = NoRoundTrip

Apply(res) ==
    /\ num_components' = res.num_components
    /\ eigenvalues' = res.eigenvalues
    /\ eigenvectors' = res.eigenvectors
    /\ last' = res.last
    /\ UNCHANGED <<dataAsRow, rt>>

\* Whether _num_components has been overwritten since construction: by the
\* last call, or by one before it.
Overwritten == last.rClipped \/ (last.outcome # "none" /\ last.r # num_components)

\* compute(const Mat& src, const vector<int>& labels)
Compute ==
    \E ch \in Channels, st \in Stages(dataAsRow) :
        IF ch # 1 \/ LabelCountMismatch(st.L, st.N) \/ st.raised
        THEN Apply(ComputeResult(num_components, Overwritten, eigenvalues,
                                 eigenvectors, ch, st, <<>>))
        ELSE \E es \in SolverOutputs(st.D) :
                Apply(ComputeResult(num_components, Overwritten, eigenvalues,
                                    eigenvectors, ch, st, es))

Next == Compute

Spec == Init /\ [][Next]_vars

\* reconstruct(W, mean, project(W, mean, src, asRow), asRow)
RoundTrip ==
    /\ rt.status = "input"
    /\ LET Y == Project(rt.W, rt.mean, rt.src, rt.asRow)
       IN rt' = [status |-> "done", asRow |-> rt.asRow, W |-> rt.W,
                 mean |-> rt.mean, src |-> rt.src, projected |-> Y,
                 reconstructed |-> IF Y.err # "" THEN Y
                                   ELSE Reconstruct(rt.W, rt.mean, Y.val, rt.asRow)]
    /\ UNCHANGED <<dataAsRow, num_components, eigenvalues, eigenvectors, last>>

\* The arguments of a round trip: a d x k basis W, a mean and n observations
\* of dimension d, as rows or as columns.
InitAffine ==
    /\ dataAsRow = TRUE
    /\ num_components = 0
    /\ eigenvalues = <<>>
    /\ eigenvectors = <<>>
    /\ last = NoCall
    /\ \E asRow \in BOOLEAN, sh \in RoundTripShapes, k \in 1 .. MaxDim, mean \in Means :
        \E W \in Mats(sh[2], k, DataVals), X \in Mats(sh[1], sh[2], DataVals) :
            rt = [status |-> "input", asRow |-> asRow, W |-> W, mean |-> mean,
                  src |-> IF asRow THEN X ELSE Transpose(X)]

NextAffine == RoundTrip

SpecAffine == InitAffine /\ [][NextAffine]_vars

----------------------------------------------------------------------------
(* Properties of compute *)

\* The last call got past the checks of lines 75 and 94.
Validated == last.outcome # "none" /\ last.channels = 1 /\ last.L = last.N

\* The component count the specification asks of a call that starts from r
\* on labels with C classes.
RequestedK(r, C) == IF r <= 0 \/ r > C - 1 THEN C - 1 ELSE r

Sorted(vals) ==
    \A i \in 1 .. Len(vals) : \A j \in 1 .. Len(vals) : i < j => vals[i] >= vals[j]

\* C1: every call on validated arguments with C classes that starts from
\* num_components = r retains exactly C - 1 columns of eigenvalues and of
\* eigenvectors if r <= 0 or r > C - 1, and exactly r columns otherwise,
\* whatever the feature dimension D.
C1_RetainsRequested ==
    Validated =>
        /\ last.outcome = "ok"
        /\ Len(eigenvalues) = RequestedK(last.r, last.C)
        /\ Len(eigenvectors) = RequestedK(last.r, last.C)

\* C2: a call with a number of labels different from the number of samples
\* fails with StsBadArg and leaves num_components, eigenvalues and
\* eigenvectors as they were, whatever calls came before.
C2_MismatchRejected ==
    [][last'.L # last'.N =>
            /\ last'.outcome = "StsBadArg"
            /\ UNCHANGED <<num_components, eigenvalues, eigenvectors>>]_vars

C2_Witness ==
    /\ last.outcome = "StsBadArg"
    /\ last.channels = 1
    /\ last.L # last.N
    /\ Len(eigenvalues) > 0
    /\ Len(eigenvectors) > 0

\* C3: a call that ends in an error leaves num_components, eigenvalues and
\* eigenvectors as they were when it started.
C3_FailureLeavesState ==
    [][last'.outcome \in {"StsBadArg", "StsAssert", "SingularMatrix"} =>
            UNCHANGED <<num_components, eigenvalues, eigenvectors>>]_vars

\* C4: a call whose labels are all of one class is rejected with StsBadArg
\* before the inversion and the eigenproblem, so that a successful call
\* retains K columns with 0 < K <= C - 1.
C4_SingleClassRejected ==
    /\ (Validated /\ last.C = 1) =>
            (last.outcome = "StsBadArg" /\ ~last.formedM)
    /\ last.outcome = "ok" =>
            (0 < Len(eigenvalues) /\ Len(eigenvalues) <= last.C - 1)

\* C5: a call whose within-class scatter matrix Sw is singular does not form
\* M nor solve the eigenproblem; it ends with a SingularMatrix error.
C5_SingularRaises ==
    last.singular => (last.outcome = "SingularMatrix" /\ ~last.formedM)

\* C6: the clipping overwrites the stored num_components and persists: a
\* call on validated arguments starts from the value the call before it left
\* and leaves that value clipped, never the value first configured.
C6_ClipPersists ==
    [][(last'.outcome # "none" /\ last'.channels = 1 /\ last'.L = last'.N) =>
            /\ last'.r = num_components
            /\ num_components' = RequestedK(num_components, last'.C)]_vars

\* A call on 3 classes that starts from the 1 an earlier call's clipping
\* left, and retains 1 component, not C - 1 = 2.
C6_Witness ==
    /\ last.outcome = "ok"
    /\ last.rClipped
    /\ last.r = 1
    /\ last.C = 3
    /\ num_components = 1
    /\ Len(eigenvalues) = 1

\* C7: after a successful call the stored eigenvalues are in non-increasing
\* order, whatever order the solver returned them in.
C7_EigenvaluesSorted == last.outcome = "ok" => Sorted(eigenvalues)

C7_Witness ==
    /\ last.outcome = "ok"
    /\ Len(eigenvalues) >= 2
    /\ eigenvalues[1] > eigenvalues[2]
    /\ ~Sorted(last.esvals)

\* C9: a call with fewer observations than feature dimensions and as many
\* labels as observations prints the warning and runs to completion with a
\* stored result.
C9_WarningDoesNotAbort ==
    (Validated /\ last.N < last.D) =>
        /\ last.warned
        /\ last.outcome = "ok"
        /\ Len(eigenvalues) = num_components
        /\ Len(eigenvectors) = num_components

C9_Witness ==
    /\ Validated
    /\ last.N < last.D
    /\ last.warned
    /\ last.outcome = "ok"
    /\ Len(eigenvectors) >= 1

\* C10: after a successful call eigenvalues and eigenvectors hold the same K
\* columns in the same order: stored eigenvector i is the solver's
\* eigenvector of stored eigenvalue i, and the stored eigenvalues are the K
\* largest of the D the solver returned.
C10_PairedAndLargest ==
    last.outcome = "ok" =>
        LET K == Len(eigenvalues)
            kept == {eigenvectors[i] : i \in 1 .. Len(eigenvectors)}
        IN /\ Len(eigenvectors) = K
           /\ K = num_components
           /\ kept \subseteq 1 .. last.D
           /\ Cardinality(kept) = K
           /\ \A i \in 1 .. K : last.esvals[eigenvectors[i]] = eigenvalues[i]
           /\ \A j \in (1 .. last.D) \ kept :
                \A i \in 1 .. K : last.esvals[j] <= eigenvalues[i]

C10_Witness ==
    /\ last.outcome = "ok"
    /\ last.D = 3
    /\ last.esvals = <<0, 0, 1>>
    /\ eigenvalues = <<1>>
    /\ eigenvectors = <<3>>

----------------------------------------------------------------------------
(* Properties of project and reconstruct *)

Identity(d) == [i \in 1 .. d |-> [j \in 1 .. d |-> IF i = j THEN 1 ELSE 0]]

\* The round trip of the claim: observations as rows, a D x D basis, a mean
\* of dimension D.
SquareRoundTrip ==
    /\ rt.status = "done"
    /\ rt.asRow
    /\ Rows(rt.W) = Cols(rt.src)
    /\ Cols(rt.W) = Cols(rt.src)
    /\ Len(rt.mean) = Cols(rt.src)

RoundTripExact == rt.reconstructed.err = "" /\ rt.reconstructed.val = rt.src

\* C8 as stated: for every full-rank D x D basis W the round trip returns X.
C8_RoundTripFullRank == (SquareRoundTrip /\ Det(rt.W) # 0) => RoundTripExact

\* C8: for every sample matrix X, every mean of dimension D and every D x D
\* basis W with W * W' = I, reconstruct(W, mean, project(W, mean, X, true),
\* true) equals X.
C8_RoundTripOrthogonal ==
    (SquareRoundTrip /\ MatMul(rt.W, Transpose(rt.W)) = Identity(Rows(rt.W)))
        => RoundTripExact

C8_Witness ==
    /\ SquareRoundTrip
    /\ rt.W = <<<<0, 1>>, <<1, 0>>>>
    /\ rt.mean = <<1, 0>>
    /\ rt.src = <<<<0, 1>>, <<1, 1>>>>
    /\ rt.projected = Success(<<<<1, -1>>, <<1, 0>>>>)
    /\ RoundTripExact

====
